---- MODULE Spec2Model ----
(***************************************************************************)
(* Model of src/stt.py: the command-line entry point (main), the model     *)
(* loader, the WAV file pipeline (transcribe_wav) and the microphone       *)
(* pipeline (transcribe_mic) with its capture callback and consumer loop.  *)
(* The Vosk recognizer and the audio device are external: the recognizer   *)
(* answers nondeterministically, but identically for an identical sequence *)
(* of fed chunks (its answers are remembered in `oracle`).                 *)
(***************************************************************************)
EXTENDS Integers, Sequences, FiniteSets, TLC

\* ---------------------------------------------------------------- bounds
MaxChunks == 2      \* a WAV file holds at most MaxChunks full chunks (+1 frame)
MaxBlocks == 2      \* blocks the audio device delivers in one mic session
MaxRuns   == 2      \* invocations of the file pipeline on the same file

\* ------------------------------------------------------ program constants
ReadFrames   == 4000     \* wf.readframes(4000)
BlockSize    == 8000     \* blocksize=8000
SampleRate   == 16000    \* framerate != 16000 / samplerate = 16000
MonoChannels == 1        \* channels != 1
PcmWidth     == 2        \* sampwidth != 2

\* ------------------------------------------------------------ input sets
ChannelSet   == {1, 2}
WidthSet     == {1, 2}
RateSet      == {8000, 16000}
NFrameSet    == {k * ReadFrames + d : k \in 0..MaxChunks, d \in {0, 1}}

\* Texts are sequences of characters; " " is the only whitespace used.
SP    == " "
Texts == { <<>>, <<"a">>, <<SP>>, <<SP, "b">> }

\* ------------------------------------------------------ string functions
\* str.strip(): drop leading and trailing whitespace.
RECURSIVE LStrip(_)
LStrip(s) == IF s # <<>> /\ Head(s) = SP THEN LStrip(Tail(s)) ELSE s

RECURSIVE RStrip(_)
RStrip(s) == IF s # <<>> /\ s[Len(s)] = SP
             THEN RStrip(SubSeq(s, 1, Len(s) - 1)) ELSE s

Strip(s) == RStrip(LStrip(s))

\* " ".join(parts)
RECURSIVE Join(_)
Join(ps) == IF ps = <<>> THEN <<>>
            ELSE IF Len(ps) = 1 THEN ps[1]
            ELSE ps[1] \o <<SP>> \o Join(Tail(ps))

\* Python truthiness of a str: non-empty.
Truthy(s) == s # <<>>

Min(a, b) == IF a < b THEN a ELSE b

VARIABLES
  pc,          \* position of the main thread
  failure,     \* which exception ended the process ("none" while running)
  mode,        \* "file" | "mic"          (args.mic / args.file)
  modelDir,    \* os.path.isdir(ENGLISH_MODEL_PATH)
  wavExists,   \* os.path.exists(wav_path)
  header,      \* [channels, sampwidth, framerate] of the WAV file
  nframes,     \* number of audio frames in the WAV file
  checks,      \* how many times each fatal check was evaluated
  wavOpens,    \* number of wave.open calls
  pos,         \* read position of wf, in frames
  readCalls,   \* number of wf.readframes calls
  reads,       \* the non-empty chunks the open wf has returned, in order
  zeroReads,   \* number of zero-length reads
  data,        \* local `data`: the chunk just read / dequeued
  recCount,    \* recognizers constructed by this process
  fed,         \* chunks passed to rec.AcceptWaveform, in order
  recOps,      \* operations performed on rec, in order
  accepted,    \* return value of the last rec.AcceptWaveform
  oracle,      \* the recognizer's answers, by operation and fed sequence
  parts,       \* local `parts`
  transcript,  \* value returned by transcribe_wav
  stdout,      \* lines printed to standard output
  stderr,      \* status flags printed to standard error
  q,           \* queue.Queue()
  delivered,   \* blocks the callback has enqueued, in order
  streamOpens, \* number of sd.RawInputStream opened
  streamActive,\* the input stream is inside its `with` block
  interrupted, \* KeyboardInterrupt has been raised in the main thread
  run,         \* index of the current invocation of the file pipeline
  prevFed,     \* chunks fed during the previous invocation
  prevTranscript \* transcript of the previous invocation

inputs  == <<mode, modelDir, wavExists, header, nframes>>
wavVars == <<wavOpens, pos, readCalls, reads, zeroReads>>
recVars == <<recCount, fed, recOps, accepted, oracle>>
micVars == <<q, delivered, streamOpens, streamActive, stderr>>
runVars == <<run, prevFed, prevTranscript>>
vars == <<pc, failure, inputs, checks, wavVars, data, recVars, parts,
          transcript, stdout, micVars, interrupted, runVars>>

NoData == [off |-> 0, len |-> 0]

Init ==
  /\ pc = "main"
  /\ failure = "none"
  /\ mode \in {"file", "mic"}
  /\ modelDir \in BOOLEAN
  /\ IF mode = "file"
     THEN /\ wavExists \in BOOLEAN
          /\ header \in [channels : ChannelSet, sampwidth : WidthSet,
                         framerate : RateSet]
          /\ nframes \in NFrameSet
     ELSE \* --mic: args.file is None, no WAV file is involved
          /\ wavExists = FALSE
          /\ header = [channels |-> MonoChannels, sampwidth |-> PcmWidth,
                       framerate |-> SampleRate]
          /\ nframes = 0
  /\ checks = [c \in {"model", "file", "format"} |-> 0]
  /\ wavOpens = 0 /\ pos = 0 /\ readCalls = 0 /\ reads = <<>> /\ zeroReads = 0
  /\ data = NoData
  /\ recCount = 0 /\ fed = <<>> /\ recOps = <<>> /\ accepted = FALSE
  /\ oracle = <<>>
  /\ parts = <<>>
  /\ transcript = <<>>
  /\ stdout = <<>> /\ stderr = <<>>
  /\ q = <<>> /\ delivered = <<>> /\ streamOpens = 0 /\ streamActive = FALSE
  /\ interrupted = FALSE
  /\ run = 1 /\ prevFed = <<>> /\ prevTranscript = <<>>

\* ------------------------------------------------------------ recognizer
\* The recognizer answers operation op after the chunks `key` with answer v:
\* any answer the first time, the remembered one afterwards.
Answer(op, key, v) ==
  IF <<op, key>> \in DOMAIN oracle
  THEN v = oracle[<<op, key>>] /\ UNCHANGED oracle
  ELSE oracle' = oracle @@ (<<op, key>> :> v)

Op(name, arg) == [op |-> name, arg |-> arg]

\* ------------------------------------------------------------------ main
\* Variant: the model directory is not checked before the pipeline starts.
LoadModelLazy ==
  /\ pc = "main"
  /\ checks' = checks
  /\ pc' = (IF mode = "mic" THEN "mic_start" ELSE "wav_exists")
  /\ UNCHANGED <<failure, inputs, wavVars, data, recVars, parts, transcript,
                 stdout, micVars, interrupted, runVars>>

\* Variant: a progress line is printed before the model directory is checked.
LoadModelVerbose ==
  /\ pc = "main"
  /\ checks' = [checks EXCEPT !["model"] = @ + 1]
  /\ stdout' = Append(stdout, [kind |-> "banner", text |-> <<>>])
  /\ IF ~modelDir
     THEN pc' = "failed" /\ failure' = "model"
     ELSE pc' = (IF mode = "mic" THEN "mic_start" ELSE "wav_exists")
          /\ UNCHANGED failure
  /\ UNCHANGED <<inputs, wavVars, data, recVars, parts, transcript,
                 micVars, interrupted, runVars>>

\* main, line 117: model = load_english_model()
LoadModel ==
  /\ pc = "main"
  /\ checks' = [checks EXCEPT !["model"] = @ + 1]
  /\ IF ~modelDir
     THEN pc' = "failed" /\ failure' = "model"
     ELSE pc' = (IF mode = "mic" THEN "mic_start" ELSE "wav_exists")
          /\ UNCHANGED failure
  /\ UNCHANGED <<inputs, wavVars, data, recVars, parts, transcript, stdout,
                 micVars, interrupted, runVars>>

\* ----------------------------------------------------------- file pipeline
\* transcribe_wav, lines 30-31: the path must exist.
WavExists ==
  /\ pc = "wav_exists"
  /\ checks' = [checks EXCEPT !["file"] = @ + 1]
  /\ IF ~wavExists
     THEN pc' = "failed" /\ failure' = "file"
     ELSE pc' = "wav_open" /\ UNCHANGED failure
  /\ UNCHANGED <<inputs, wavVars, data, recVars, parts, transcript, stdout,
                 micVars, interrupted, runVars>>

\* lines 33-36: wave.open positions the reader at frame 0 and reads the header.
WavOpen ==
  /\ pc = "wav_open"
  /\ wavOpens' = wavOpens + 1
  /\ pos' = 0
  /\ reads' = <<>>
  /\ pc' = "wav_validate"
  /\ UNCHANGED <<failure, inputs, checks, readCalls, zeroReads, data,
                 recVars, parts, transcript, stdout, micVars, interrupted,
                 runVars>>

\* Variant: the three tests joined by `and`.
BadFormatAll(h) ==
  h.channels # MonoChannels /\ h.sampwidth # PcmWidth /\ h.framerate # SampleRate

\* line 38: channels != 1 or sampwidth != 2 or framerate != 16000
BadFormat(h) ==
  h.channels # MonoChannels \/ h.sampwidth # PcmWidth \/ h.framerate # SampleRate

\* lines 38-43: raise ValueError on a format mismatch.
WavValidate ==
  /\ pc = "wav_validate"
  /\ checks' = [checks EXCEPT !["format"] = @ + 1]
  /\ IF BadFormat(header)
     THEN pc' = "failed" /\ failure' = "format"
     ELSE pc' = "wav_rec" /\ UNCHANGED failure
  /\ UNCHANGED <<inputs, wavVars, data, recVars, parts, transcript, stdout,
                 micVars, interrupted, runVars>>

\* Variant: `parts` outlives the call (it is not rebound to an empty list).
WavNewRecKeepParts ==
  /\ pc = "wav_rec"
  /\ recCount' = recCount + 1
  /\ fed' = <<>> /\ recOps' = <<>> /\ accepted' = FALSE
  /\ parts' = parts
  /\ pc' = "wav_read"
  /\ UNCHANGED <<failure, inputs, checks, wavVars, data, oracle, transcript,
                 stdout, micVars, interrupted, runVars>>

\* lines 45-48: a new recognizer and an empty list of parts.
WavNewRec ==
  /\ pc = "wav_rec"
  /\ recCount' = recCount + 1
  /\ fed' = <<>> /\ recOps' = <<>> /\ accepted' = FALSE
  /\ parts' = <<>>
  /\ pc' = "wav_read"
  /\ UNCHANGED <<failure, inputs, checks, wavVars, data, oracle, transcript,
                 stdout, micVars, interrupted, runVars>>

\* Variant: the whole rest of the file is read at once.
ReadLenRest(n) == nframes - pos

\* wf.readframes(n): at most n frames, fewer at the end of the file.
ReadLen(n) == Min(n, nframes - pos)

\* lines 50-52: read a chunk; a zero-length read leaves the loop.
WavRead ==
  /\ pc = "wav_read"
  /\ LET n == ReadLen(ReadFrames)
         chunk == [off |-> pos, len |-> n]
     IN /\ readCalls' = readCalls + 1
        /\ data' = chunk
        /\ pos' = pos + n
        /\ IF n * PcmWidth = 0
           THEN /\ zeroReads' = zeroReads + 1
                /\ pc' = "wav_final"
                /\ UNCHANGED reads
           ELSE /\ reads' = Append(reads, chunk)
                /\ pc' = "wav_feed"
                /\ UNCHANGED zeroReads
  /\ UNCHANGED <<failure, inputs, checks, wavOpens, recVars, parts,
                 transcript, stdout, micVars, interrupted, runVars>>

\* Variant: a chunk shorter than a full read is not passed on.
WavFeedDropShort ==
  /\ pc = "wav_feed"
  /\ IF data.len < ReadFrames
     THEN /\ pc' = "wav_read"
          /\ UNCHANGED <<fed, recOps, accepted, oracle>>
     ELSE /\ \E b \in BOOLEAN :
               /\ Answer("accept", Append(fed, data), b)
               /\ accepted' = b
               /\ pc' = (IF b THEN "wav_result" ELSE "wav_read")
          /\ fed' = Append(fed, data)
          /\ recOps' = Append(recOps, Op("accept", <<>>))
  /\ UNCHANGED <<failure, inputs, checks, wavVars, data, recCount, parts,
                 transcript, stdout, micVars, interrupted, runVars>>

\* line 53: rec.AcceptWaveform(data)
WavFeed ==
  /\ pc = "wav_feed"
  /\ \E b \in BOOLEAN :
       /\ Answer("accept", Append(fed, data), b)
       /\ accepted' = b
       /\ pc' = (IF b THEN "wav_result" ELSE "wav_read")
  /\ fed' = Append(fed, data)
  /\ recOps' = Append(recOps, Op("accept", <<>>))
  /\ UNCHANGED <<failure, inputs, checks, wavVars, data, recCount, parts,
                 transcript, stdout, micVars, interrupted, runVars>>

\* Variant: the boundary text is appended even when empty.
WavResultKeepEmpty ==
  /\ pc = "wav_result"
  /\ \E t \in Texts :
       /\ Answer("result", fed, t)
       /\ recOps' = Append(recOps, Op("result", t))
       /\ parts' = Append(parts, t)
  /\ pc' = "wav_read"
  /\ UNCHANGED <<failure, inputs, checks, wavVars, data, recCount, fed,
                 accepted, transcript, stdout, micVars, interrupted, runVars>>

\* Variant: rec.FinalResult() is called at an utterance boundary.
WavResultAsFinal ==
  /\ pc = "wav_result"
  /\ \E t \in Texts :
       /\ Answer("final", fed, t)
       /\ recOps' = Append(recOps, Op("final", t))
       /\ parts' = (IF Truthy(t) THEN Append(parts, t) ELSE parts)
  /\ pc' = "wav_read"
  /\ UNCHANGED <<failure, inputs, checks, wavVars, data, recCount, fed,
                 accepted, transcript, stdout, micVars, interrupted, runVars>>

\* lines 54-56: the boundary result's text is appended unless empty.
WavResult ==
  /\ pc = "wav_result"
  /\ \E t \in Texts :
       /\ Answer("result", fed, t)
       /\ recOps' = Append(recOps, Op("result", t))
       /\ parts' = (IF Truthy(t) THEN Append(parts, t) ELSE parts)
  /\ pc' = "wav_read"
  /\ UNCHANGED <<failure, inputs, checks, wavVars, data, recCount, fed,
                 accepted, transcript, stdout, micVars, interrupted, runVars>>

\* Variant: the final result is not queried when no chunk was fed.
WavFinalSkipEmpty ==
  /\ pc = "wav_final"
  /\ IF fed = <<>>
     THEN UNCHANGED <<oracle, recOps, parts>>
     ELSE \E t \in Texts :
            /\ Answer("final", fed, t)
            /\ recOps' = Append(recOps, Op("final", t))
            /\ parts' = (IF Truthy(t) THEN Append(parts, t) ELSE parts)
  /\ pc' = "wav_return"
  /\ UNCHANGED <<failure, inputs, checks, wavVars, data, recCount, fed,
                 accepted, transcript, stdout, micVars, interrupted, runVars>>

\* lines 58-60: the final result's text is appended unless empty.
WavFinal ==
  /\ pc = "wav_final"
  /\ \E t \in Texts :
       /\ Answer("final", fed, t)
       /\ recOps' = Append(recOps, Op("final", t))
       /\ parts' = (IF Truthy(t) THEN Append(parts, t) ELSE parts)
  /\ pc' = "wav_return"
  /\ UNCHANGED <<failure, inputs, checks, wavVars, data, recCount, fed,
                 accepted, transcript, stdout, micVars, interrupted, runVars>>

\* line 62: return " ".join(parts).strip()
WavReturn ==
  /\ pc = "wav_return"
  /\ transcript' = Strip(Join(parts))
  /\ pc' = "main_print"
  /\ UNCHANGED <<failure, inputs, checks, wavVars, data, recVars, parts,
                 stdout, micVars, interrupted, runVars>>

\* main, line 122: print(transcribe_wav(model, args.file))
MainPrint ==
  /\ pc = "main_print"
  /\ stdout' = Append(stdout, [kind |-> "transcript", text |-> transcript])
  /\ pc' = "done"
  /\ UNCHANGED <<failure, inputs, checks, wavVars, data, recVars, parts,
                 transcript, micVars, interrupted, runVars>>

\* transcribe_wav is called again with the same model and path; the
\* recognizer answers as before for the same chunks.  Locals are rebound by
\* the function's own statements.
Rerun ==
  /\ pc = "done" /\ mode = "file" /\ run < MaxRuns
  /\ run' = run + 1
  /\ prevFed' = fed
  /\ prevTranscript' = transcript
  /\ pc' = "wav_exists"
  /\ UNCHANGED <<failure, inputs, checks, wavVars, data, recVars, parts,
                 transcript, stdout, micVars, interrupted>>

\* ------------------------------------------------------------ mic pipeline
\* transcribe_mic, lines 66-77: the queue, the recognizer and the banner,
\* all before the try statement.
MicStart ==
  /\ pc = "mic_start"
  /\ q' = <<>>
  /\ recCount' = recCount + 1
  /\ fed' = <<>> /\ recOps' = <<>> /\ accepted' = FALSE
  /\ stdout' = Append(stdout, [kind |-> "banner", text |-> <<>>])
  /\ pc' = "mic_open"
  /\ UNCHANGED <<failure, inputs, checks, wavVars, data, oracle, parts,
                 transcript, stderr, delivered, streamOpens, streamActive,
                 interrupted, runVars>>

\* lines 79-87: inside the try, the input stream is opened and started.
MicOpen ==
  /\ pc = "mic_open"
  /\ streamOpens' = streamOpens + 1
  /\ streamActive' = TRUE
  /\ pc' = "mic_get"
  /\ UNCHANGED <<failure, inputs, checks, wavVars, data, recVars, parts,
                 transcript, stdout, stderr, q, delivered, interrupted,
                 runVars>>

\* The i-th block the device delivers (its bytes are identified by position).
Block(i) == [off |-> (i - 1) * BlockSize, len |-> BlockSize]

\* Variant: the callback feeds the recognizer itself before enqueueing.
CallbackFeeds ==
  /\ streamActive
  /\ Len(delivered) < MaxBlocks
  /\ LET blk == Block(Len(delivered) + 1)
     IN /\ \E status \in BOOLEAN :
             stderr' = (IF status THEN Append(stderr, blk.off) ELSE stderr)
        /\ \E b \in BOOLEAN :
             /\ Answer("accept", Append(fed, blk), b)
             /\ accepted' = b
        /\ fed' = Append(fed, blk)
        /\ recOps' = Append(recOps, Op("accept", <<>>))
        /\ q' = Append(q, blk)
        /\ delivered' = Append(delivered, blk)
  /\ UNCHANGED <<pc, failure, inputs, checks, wavVars, data, recCount, parts,
                 transcript, stdout, streamOpens, streamActive, interrupted,
                 runVars>>

\* Variant: the queue holds one buffer at most (queue.Queue(maxsize=1)), so
\* q.put blocks the callback while the consumer is behind.
CallbackBounded ==
  /\ streamActive
  /\ Len(delivered) < MaxBlocks
  /\ Len(q) < 1
  /\ LET blk == Block(Len(delivered) + 1)
     IN /\ \E status \in BOOLEAN :
             stderr' = (IF status THEN Append(stderr, blk.off) ELSE stderr)
        /\ q' = Append(q, blk)
        /\ delivered' = Append(delivered, blk)
  /\ UNCHANGED <<pc, failure, inputs, checks, wavVars, data, recVars, parts,
                 transcript, stdout, streamOpens, streamActive, interrupted,
                 runVars>>

\* callback, lines 68-71, run by the audio thread for each delivered block.
Callback ==
  /\ streamActive
  /\ Len(delivered) < MaxBlocks
  /\ LET blk == Block(Len(delivered) + 1)
     IN /\ \E status \in BOOLEAN :
             stderr' = (IF status THEN Append(stderr, blk.off) ELSE stderr)
        /\ q' = Append(q, blk)
        /\ delivered' = Append(delivered, blk)
  /\ UNCHANGED <<pc, failure, inputs, checks, wavVars, data, recVars, parts,
                 transcript, stdout, streamOpens, streamActive, interrupted,
                 runVars>>

\* Variant: q.get(timeout=...) gives up on an empty queue; queue.Empty is
\* not caught and ends the session.
MicGetTimeout ==
  /\ pc = "mic_get"
  /\ IF q = <<>>
     THEN /\ pc' = "failed" /\ failure' = "empty"
          /\ UNCHANGED <<data, q>>
     ELSE /\ data' = Head(q)
          /\ q' = Tail(q)
          /\ pc' = "mic_feed"
          /\ UNCHANGED failure
  /\ UNCHANGED <<inputs, checks, wavVars, recVars, parts, transcript,
                 stdout, stderr, delivered, streamOpens, streamActive,
                 interrupted, runVars>>

\* Variant: the consumer takes the newest buffer instead of the oldest.
MicGetLifo ==
  /\ pc = "mic_get"
  /\ q # <<>>
  /\ data' = q[Len(q)]
  /\ q' = SubSeq(q, 1, Len(q) - 1)
  /\ pc' = "mic_feed"
  /\ UNCHANGED <<failure, inputs, checks, wavVars, recVars, parts, transcript,
                 stdout, stderr, delivered, streamOpens, streamActive,
                 interrupted, runVars>>

\* line 89: data = q.get() blocks while the queue is empty.
MicGet ==
  /\ pc = "mic_get"
  /\ q # <<>>
  /\ data' = Head(q)
  /\ q' = Tail(q)
  /\ pc' = "mic_feed"
  /\ UNCHANGED <<failure, inputs, checks, wavVars, recVars, parts, transcript,
                 stdout, stderr, delivered, streamOpens, streamActive,
                 interrupted, runVars>>

\* line 90: rec.AcceptWaveform(data)
MicFeed ==
  /\ pc = "mic_feed"
  /\ \E b \in BOOLEAN :
       /\ Answer("accept", Append(fed, data), b)
       /\ accepted' = b
       /\ pc' = (IF b THEN "mic_result" ELSE "mic_partial")
  /\ fed' = Append(fed, data)
  /\ recOps' = Append(recOps, Op("accept", <<>>))
  /\ UNCHANGED <<failure, inputs, checks, wavVars, data, recCount, parts,
                 transcript, stdout, micVars, interrupted, runVars>>

\* Variant: the partial branch is not an else, it also runs after a boundary.
MicResultThenPartial ==
  /\ pc = "mic_result"
  /\ \E t \in Texts :
       /\ Answer("result", fed, t)
       /\ recOps' = Append(recOps, Op("result", t))
       /\ stdout' = (IF Truthy(Strip(t))
                     THEN Append(stdout, [kind |-> "line", text |-> Strip(t)])
                     ELSE stdout)
  /\ pc' = "mic_partial"
  /\ UNCHANGED <<failure, inputs, checks, wavVars, data, recCount, fed,
                 accepted, parts, transcript, micVars, interrupted, runVars>>

\* lines 91-94: print the trimmed boundary text unless empty.
MicResult ==
  /\ pc = "mic_result"
  /\ \E t \in Texts :
       /\ Answer("result", fed, t)
       /\ recOps' = Append(recOps, Op("result", t))
       /\ stdout' = (IF Truthy(Strip(t))
                     THEN Append(stdout, [kind |-> "line", text |-> Strip(t)])
                     ELSE stdout)
  /\ pc' = "mic_get"
  /\ UNCHANGED <<failure, inputs, checks, wavVars, data, recCount, fed,
                 accepted, parts, transcript, micVars, interrupted, runVars>>

\* lines 96-98: print the trimmed partial text in place unless empty.
MicPartial ==
  /\ pc = "mic_partial"
  /\ \E t \in Texts :
       /\ Answer("partial", fed, t)
       /\ recOps' = Append(recOps, Op("partial", t))
       /\ stdout' = (IF Truthy(Strip(t))
                     THEN Append(stdout, [kind |-> "partial", text |-> Strip(t)])
                     ELSE stdout)
  /\ pc' = "mic_get"
  /\ UNCHANGED <<failure, inputs, checks, wavVars, data, recCount, fed,
                 accepted, parts, transcript, micVars, interrupted, runVars>>

\* Positions of the main thread inside the try statement (lines 79-98).
TryPcs == {"mic_open", "mic_get", "mic_feed", "mic_result", "mic_partial"}

\* Ctrl+C during the mic session: KeyboardInterrupt is raised in the main
\* thread.  Inside the try the with-block closes the stream and the handler
\* of line 100 runs; before the try nothing catches it.
Interrupt ==
  /\ mode = "mic" /\ ~interrupted
  /\ pc \in TryPcs \cup {"mic_start"}
  /\ interrupted' = TRUE
  /\ IF pc \in TryPcs
     THEN pc' = "mic_stopped" /\ streamActive' = FALSE /\ UNCHANGED failure
     ELSE pc' = "failed" /\ failure' = "interrupt" /\ UNCHANGED streamActive
  /\ UNCHANGED <<inputs, checks, wavVars, data, recVars, parts, transcript,
                 stdout, stderr, q, delivered, streamOpens, runVars>>

\* line 101: print("\n\nStopped.")
MicStopped ==
  /\ pc = "mic_stopped"
  /\ stdout' = Append(stdout, [kind |-> "stopped", text |-> <<>>])
  /\ pc' = "mic_final"
  /\ UNCHANGED <<failure, inputs, checks, wavVars, data, recVars, parts,
                 transcript, micVars, interrupted, runVars>>

\* Variant: the final text is tested and printed without .strip().
MicFinalUntrimmed ==
  /\ pc = "mic_final"
  /\ \E t \in Texts :
       /\ Answer("final", fed, t)
       /\ recOps' = Append(recOps, Op("final", t))
       /\ stdout' = (IF Truthy(t)
                     THEN Append(stdout, [kind |-> "final", text |-> t])
                     ELSE stdout)
  /\ pc' = "done"
  /\ UNCHANGED <<failure, inputs, checks, wavVars, data, recCount, fed,
                 accepted, parts, transcript, micVars, interrupted, runVars>>

\* lines 102-104: print the trimmed final text unless empty, then return.
MicFinal ==
  /\ pc = "mic_final"
  /\ \E t \in Texts :
       /\ Answer("final", fed, t)
       /\ recOps' = Append(recOps, Op("final", t))
       /\ stdout' = (IF Truthy(Strip(t))
                     THEN Append(stdout, [kind |-> "final", text |-> Strip(t)])
                     ELSE stdout)
  /\ pc' = "done"
  /\ UNCHANGED <<failure, inputs, checks, wavVars, data, recCount, fed,
                 accepted, parts, transcript, micVars, interrupted, runVars>>

\* ------------------------------------------------------------------ system
MainThread ==
  \/ LoadModel
  \/ WavExists \/ WavOpen \/ WavValidate \/ WavNewRec \/ WavRead
  \/ WavFeed \/ WavResult \/ WavFinal \/ WavReturn \/ MainPrint
  \/ MicStart \/ MicOpen \/ MicGet \/ MicFeed \/ MicResult \/ MicPartial
  \/ MicStopped \/ MicFinal

Next == MainThread \/ Callback \/ Interrupt \/ Rerun

Spec == Init /\ [][Next]_vars

\* The interpreter keeps running the main thread whenever it can take a step.
FairSpec == Spec /\ WF_vars(MainThread)

\* ================================================================ properties
IsPrefix(a, b) == Len(a) <= Len(b) /\ a = SubSeq(b, 1, Len(a))

\* The buffer the consumer has dequeued but not yet fed.
InFlight == IF pc = "mic_feed" THEN <<data>> ELSE <<>>

Count(ops, name) == Cardinality({i \in 1..Len(ops) : ops[i].op = name})

FinalLines == {i \in 1..Len(stdout) : stdout[i].kind = "final"}

\* C1 (as stated): the buffers passed to AcceptWaveform are the buffers the
\* callback enqueued, in order, and every enqueued buffer is dequeued: once
\* the session has ended nothing enqueued is left unconsumed.
C1_AllConsumed ==
  mode = "mic" =>
    /\ IsPrefix(fed, delivered)
    /\ (pc = "done" => fed = delivered /\ q = <<>>)

\* C1 (amended): the buffers fed are always a prefix of the buffers enqueued
\* (none skipped, duplicated or reordered); until an interruption every
\* enqueued buffer is fed, queued or in the consumer's hands, and is
\* eventually fed unless the interruption comes first.
C1_FifoUntilInterrupt ==
  /\ [](mode = "mic" =>
          /\ IsPrefix(fed, delivered)
          /\ (~interrupted => delivered = fed \o InFlight \o q))
  /\ \A i \in 1..MaxBlocks :
       (Len(delivered) >= i) ~> (Len(fed) >= i \/ interrupted)

C1_Witness ==
  mode = "mic" /\ ~interrupted /\ Len(fed) >= 2 /\ fed = delivered

\* t is raw without its leading and trailing whitespace.
IsTrimOf(t, raw) ==
  \E i \in 1..(Len(raw) + 1) : \E j \in 0..Len(raw) :
    /\ t = SubSeq(raw, i, j)
    /\ \A k \in 1..Len(raw) : (k < i \/ k > j) => raw[k] = SP
    /\ (t # <<>> => t[1] # SP /\ t[Len(t)] # SP)

\* C2: in the mic pipeline at most one "Final:" line is ever printed, and
\* once the interrupted session has ended exactly one was printed if and
\* only if the trimmed text of the final result is non-empty (the line then
\* carries that trimmed text).
C2_FinalLineIffText ==
  mode = "mic" =>
    /\ Cardinality(FinalLines) <= 1
    /\ (interrupted /\ pc \in {"done", "failed"} =>
          LET asked == Count(recOps, "final") = 1
              text  == IF asked THEN recOps[Len(recOps)].arg ELSE <<>>
          IN /\ (Cardinality(FinalLines) = 1)
                  <=> (asked /\ ~IsTrimOf(<<>>, text))
             /\ \A i \in FinalLines :
                  stdout[i].text # <<>> /\ IsTrimOf(stdout[i].text, text))

C2_Witness ==
  /\ mode = "mic" /\ pc = "done" /\ interrupted
  /\ recOps[Len(recOps)] = Op("final", <<SP, "b">>)
  /\ stdout[Len(stdout)] = [kind |-> "final", text |-> <<"b">>]

\* C3: a WAV file whose header is not mono / 2 bytes / 16000 Hz makes
\* transcribe_wav end in the format error, with no readframes call, no
\* recognizer constructed and no chunk fed.
C3_BadHeaderFailsBeforeRead ==
  (mode = "file" /\ (header.channels # 1 \/ header.sampwidth # 2
                     \/ header.framerate # 16000)) =>
    /\ readCalls = 0 /\ recCount = 0 /\ fed = <<>> /\ recOps = <<>>
    /\ (checks["format"] > 0 => pc = "failed" /\ failure = "format")

C3_Witness ==
  /\ pc = "failed" /\ failure = "format"
  /\ header.channels = 1 /\ header.sampwidth = 2 /\ header.framerate # 16000
  /\ readCalls = 0

\* The texts the recognizer returned from Result and FinalResult, in order.
Segments(ops) ==
  LET rs == SelectSeq(ops, LAMBDA o : o.op \in {"result", "final"})
  IN [i \in 1..Len(rs) |-> rs[i].arg]

Returned == pc \in {"main_print", "done"}

\* C4: the string transcribe_wav returns is the boundary texts in order,
\* then the final text, empty texts skipped, joined by one space, with no
\* leading or trailing whitespace.
C4_TranscriptIsJoinedSegments ==
  (mode = "file" /\ Returned) =>
    LET segs == SelectSeq(Segments(recOps), LAMBDA t : t # <<>>)
    IN /\ IsTrimOf(transcript, Join(segs))
       /\ (transcript # <<>> =>
             transcript[1] # SP /\ transcript[Len(transcript)] # SP)

C4_Witness ==
  /\ mode = "file" /\ pc = "done"
  /\ Segments(recOps) = << <<"a">>, <<>>, <<"a">> >>
  /\ transcript = <<"a", SP, "a">>

\* C5: for a valid WAV file every read returns at most 4000 frames, the
\* first zero-length read of a call leaves the loop, and every call on an
\* existing valid file returns.
C5_ReadLoopTerminates ==
  /\ [](mode = "file" =>
          /\ \A i \in 1..Len(reads) : reads[i].len > 0 /\ reads[i].len <= 4000
          /\ data.len <= 4000
          /\ zeroReads <= run
          /\ (pc \in {"wav_read", "wav_feed", "wav_result"}
                => zeroReads = run - 1)
          /\ readCalls <= run * ((nframes \div 4000) + 2))
  /\ (/\ pc = "wav_exists" /\ wavExists
      /\ header.channels = 1 /\ header.sampwidth = 2
      /\ header.framerate = 16000) ~> (pc = "main_print")

C5_Witness ==
  /\ mode = "file" /\ pc = "main_print" /\ run = 1
  /\ nframes = 4001 /\ Len(reads) = 2 /\ reads[2].len = 1 /\ zeroReads = 1

\* C6: a recognizer's final result is queried at most once and is the last
\* operation on it; it is queried only after the zero-length read (file) or
\* after the interrupt (mic).
C6_FinalOnceAndLast ==
  /\ [](/\ Count(recOps, "final") <= 1
        /\ \A i \in 1..Len(recOps) :
             recOps[i].op = "final" => i = Len(recOps))
  /\ [][Count(recOps', "final") > Count(recOps, "final") =>
          /\ (mode = "file" => data.len = 0 /\ pos = nframes /\ zeroReads' = run)
          /\ (mode = "mic" => interrupted)]_vars

C6_Witness ==
  /\ mode = "file" /\ Returned
  /\ Count(recOps, "final") = 1 /\ Count(recOps, "result") >= 1
  /\ Len(fed) >= 2

\* C7: with the model directory missing, main fails in load_english_model
\* before a WAV file or an audio stream is opened or a recognizer is
\* constructed, in both modes.
C7_MissingModelFailsFirst ==
  ~modelDir =>
    /\ wavOpens = 0 /\ streamOpens = 0 /\ recCount = 0 /\ readCalls = 0
    /\ checks["file"] = 0 /\ ~streamActive /\ delivered = <<>>
    /\ (pc # "main" => pc = "failed" /\ failure = "model")

C7_Witness ==
  ~modelDir /\ mode = "mic" /\ pc = "failed" /\ failure = "model"

\* C8: a run that ends in a fatal condition (missing model, missing WAV
\* file, format mismatch) has printed nothing to standard output, has fed
\* no frame to a recognizer, and evaluated the failing check exactly once.
C8_FailFast ==
  (pc = "failed" /\ failure \in {"model", "file", "format"}) =>
    /\ stdout = <<>>
    /\ fed = <<>> /\ recOps = <<>>
    /\ checks[failure] = 1

C8_Witness ==
  pc = "failed" /\ failure = "file" /\ modelDir /\ checks["model"] = 1

\* C9: for a valid WAV file of 0 frames transcribe_wav feeds nothing, still
\* queries the final result once, and returns that text trimmed: the empty
\* string when the final text is empty.
C9_EmptyStream ==
  (mode = "file" /\ nframes = 0 /\ Returned) =>
    /\ fed = <<>>
    /\ Len(recOps) = 1 /\ recOps[1].op = "final"
    /\ IsTrimOf(transcript, recOps[1].arg)
    /\ (recOps[1].arg = <<>> => transcript = <<>> /\ parts = <<>>)
    /\ (recOps[1].arg # <<>> => parts = <<recOps[1].arg>>)

C9_Witness ==
  /\ mode = "file" /\ nframes = 0 /\ pc = "done"
  /\ recOps = <<Op("final", <<>>)>> /\ transcript = <<>>

\* C10: a second call of transcribe_wav on the same file feeds its
\* recognizer the same chunks as the first and returns the same transcript.
C10_RerunSameTranscript ==
  (mode = "file" /\ run >= 2 /\ Returned) =>
    /\ fed = prevFed
    /\ transcript = prevTranscript

C10_Witness ==
  /\ mode = "file" /\ run = 2 /\ pc = "done"
  /\ Len(fed) >= 2 /\ transcript # <<>> /\ transcript = prevTranscript

\* C11: once the interrupt has been raised in the mic session and the main
\* thread has come to rest, transcribe_mic has returned normally and the
\* recognizer's final result was queried exactly once.
C11_InterruptAlwaysFinalizes ==
  (mode = "mic" /\ interrupted /\ pc \in {"done", "failed"}) =>
    /\ pc = "done"
    /\ Count(recOps, "final") = 1

\* Positions of transcribe_wav from the read loop to the caller's print.
InReadLoop == pc \in {"wav_read", "wav_feed", "wav_result"}
PastReadLoop == pc \in {"wav_final", "wav_return", "main_print", "done"}

\* C12: in transcribe_wav the chunks fed to the recognizer are at every
\* point exactly the non-empty chunks read so far, in order (the chunk just
\* read is fed before the next read); they are consecutive pieces of the
\* file from frame 0 and, once the loop is left, cover the whole file.
C12_FedIsRead ==
  (mode = "file" /\ (InReadLoop \/ PastReadLoop)) =>
    /\ reads = fed \o (IF pc = "wav_feed" THEN <<data>> ELSE <<>>)
    /\ \A i \in 1..Len(fed) :
         /\ fed[i].len > 0
         /\ fed[i].off = (IF i = 1 THEN 0 ELSE fed[i - 1].off + fed[i - 1].len)
    /\ (PastReadLoop =>
          IF fed = <<>> THEN nframes = 0
          ELSE fed[Len(fed)].off + fed[Len(fed)].len = nframes)

C12_Witness ==
  /\ mode = "file" /\ pc = "wav_final" /\ nframes = 8001
  /\ Len(fed) = 3 /\ fed[3] = [off |-> 8000, len |-> 1] /\ reads = fed

\* C13: while the stream is open the callback can always run, whatever the
\* queue length and the consumer's position; each run of it appends exactly
\* the delivered block to the tail of the queue, leaves the stream open and
\* the main thread where it was, and a status flag only adds a line to the
\* diagnostic output.
C13_CallbackAlwaysEnqueues ==
  /\ []((streamActive /\ Len(delivered) < MaxBlocks) => ENABLED Callback)
  /\ [][delivered' # delivered =>
          LET blk == [off |-> Len(delivered) * 8000, len |-> 8000]
          IN /\ delivered' = Append(delivered, blk)
             /\ q' = Append(q, blk)
             /\ streamActive' /\ streamActive
             /\ pc' = pc /\ failure' = failure
             /\ stderr' \in {stderr, Append(stderr, blk.off)}]_vars

C13_Witness ==
  /\ pc = "mic_feed" /\ Len(q) = 1 /\ Len(delivered) = 2
  /\ Len(stderr) = 2 /\ streamActive

\* The recognizer operations of the consumer loop (all but the final query).
LoopOps == SelectSeq(recOps, LAMBDA o : o.op # "final")

\* The loop's queries whose trimmed text is non-empty.
Spoken ==
  SelectSeq(LoopOps, LAMBDA o : o.op \in {"result", "partial"}
                                /\ ~IsTrimOf(<<>>, o.arg))

Printed == SelectSeq(stdout, LAMBDA l : l.kind \in {"line", "partial"})

C15_QueueOnlySharedState ==
  [][/\ (delivered' # delivered =>
           /\ q' # q
           /\ UNCHANGED <<fed, recOps, accepted, oracle, recCount>>
           /\ UNCHANGED <<stdout, data, parts, transcript, pc, failure>>
           /\ UNCHANGED <<streamOpens, streamActive, interrupted>>)
     /\ ((fed' # fed \/ recOps' # recOps \/ oracle' # oracle
          \/ accepted' # accepted \/ recCount' # recCount) =>
           /\ pc' # pc
           /\ pc \in {"mic_start", "mic_feed", "mic_result", "mic_partial",
                      "mic_final", "wav_rec", "wav_feed", "wav_result",
                      "wav_final"}
           /\ UNCHANGED <<delivered, stderr>>
           /\ (pc # "mic_start" => q' = q))]_vars

C15_Witness ==
  /\ mode = "mic" /\ pc = "mic_partial" /\ ~accepted
  /\ Len(fed) = 1 /\ Len(q) = 1 /\ Len(delivered) = 2

\* Positions of the main thread inside the consumer loop (lines 88-98).
LoopPcs == {"mic_get", "mic_feed", "mic_result", "mic_partial"}

\* C16: the main thread leaves the consumer loop only by the interrupt;
\* at q.get() with an empty queue it can take no step at all, and it goes
\* on from q.get() only with the buffer at the head of the queue.
C16_LoopEndsOnlyByInterrupt ==
  /\ []((mode = "mic" /\ pc \in {"mic_stopped", "mic_final", "done"})
          => interrupted)
  /\ []((pc = "mic_get" /\ q = <<>>) => ~ENABLED MainThread)
  /\ [][(pc \in LoopPcs /\ pc' \notin LoopPcs)
          => (~interrupted /\ interrupted' /\ pc' = "mic_stopped")]_vars
  /\ [][(pc = "mic_get" /\ pc' \in LoopPcs /\ pc' # pc)
          => (q # <<>> /\ data' = Head(q) /\ q' = Tail(q))]_vars

C16_Witness ==
  /\ mode = "mic" /\ pc = "mic_get" /\ q = <<>> /\ ~interrupted
  /\ Len(fed) = 2 /\ Len(stderr) >= 1
  /\ LoopOps[2] = Op("result", <<>>)
  /\ LoopOps[4] = Op("partial", <<>>)
====
